---- MODULE Spec2Model ----
(***************************************************************************)
(* Search ranking subsystem of the EPUB documentation search service       *)
(* (src/app.py), together with the part of the parser (src/epub_parser.py) *)
(* that fixes the shape of the documents the service loads.                *)
(*                                                                         *)
(* Text is a sequence of one-character strings.  Similarities are cosine   *)
(* similarities in hundredths (0.1 is 10), chosen by the environment: the  *)
(* embedding model is an external library.                                 *)
(***************************************************************************)
EXTENDS Integers, Sequences, FiniteSets, TLC

VARIABLES pc, VECTOR_SEARCH_AVAILABLE, documents, vector_model,
          document_embeddings, request, response

vars == <<pc, VECTOR_SEARCH_AVAILABLE, documents, vector_model,
          document_embeddings, request, response>>

(***************************************************************************)
(* Bounds of the model                                                     *)
(***************************************************************************)
MaxDocs == 2
MaxLimit == 2
MaxQueryLen == 3
MaxTextLen == 3

(***************************************************************************)
(* Program constants                                                       *)
(***************************************************************************)
TitleBoost == 10
SnippetLen == 300
FirstParagraphs == 3
MinParagraphLen == 10
SimilarityThreshold == 10
DefaultLimit == 10

Min(a, b) == IF a < b THEN a ELSE b
Max(a, b) == IF a > b THEN a ELSE b

(***************************************************************************)
(* Python string operations, on sequences of characters                    *)
(***************************************************************************)
LowerChar(c) == CASE c = "A" -> "a" [] c = "B" -> "b" [] OTHER -> c

lower(s) == [i \in 1..Len(s) |-> LowerChar(s[i])]

IsSpace(c) == c = " "

RECURSIVE SplitFrom(_, _, _, _)
SplitFrom(s, i, cur, acc) ==
    IF i > Len(s)
    THEN IF cur = <<>> THEN acc ELSE Append(acc, cur)
    ELSE IF IsSpace(s[i])
         THEN SplitFrom(s, i + 1, <<>>, IF cur = <<>> THEN acc ELSE Append(acc, cur))
         ELSE SplitFrom(s, i + 1, Append(cur, s[i]), acc)

\* str.split(): the maximal runs of non-whitespace characters, in order
split(s) == SplitFrom(s, 1, <<>>, <<>>)

MatchAt(text, word, i) ==
    /\ i + Len(word) - 1 <= Len(text)
    /\ \A k \in 1..Len(word) : text[i + k - 1] = word[k]

\* word in text
Contains(text, word) == \E i \in 1..(Len(text) - Len(word) + 1) : MatchAt(text, word, i)

\* text.find(word, i): the first occurrence at or after i, 0 when there is none
FindFrom(text, word, i) ==
    LET hits == {j \in i..(Len(text) - Len(word) + 1) : MatchAt(text, word, j)}
    IN  IF hits = {} THEN 0 ELSE CHOOSE j \in hits : \A k \in hits : j <= k

RECURSIVE CountFrom(_, _, _)
CountFrom(text, word, i) ==
    LET j == FindFrom(text, word, i)
    IN  IF j = 0 THEN 0 ELSE 1 + CountFrom(text, word, j + Len(word))

\* text.count(word): non-overlapping occurrences, scanning from the left
count(text, word) == IF word = <<>> THEN Len(text) + 1 ELSE CountFrom(text, word, 1)

\* s[:n] for n >= 0
Truncate(s, n) == SubSeq(s, 1, Min(Len(s), n))

\* s[:limit] for any int limit (a negative limit drops -limit items from the end)
Slice(s, limit) ==
    IF limit >= 0 THEN SubSeq(s, 1, Min(limit, Len(s)))
    ELSE SubSeq(s, 1, Max(0, Len(s) + limit))

Reverse(s) == [i \in 1..Len(s) |-> s[Len(s) + 1 - i]]

\* s * n
Rep(s, n) == [i \in 1..(n * Len(s)) |-> s[((i - 1) % Len(s)) + 1]]

(***************************************************************************)
(* The parser: what a document of content.json looks like                  *)
(***************************************************************************)
\* the characters clean_text keeps: every non-space, and the first space of a
\* run that stands between two words
KeptByClean(s, i) ==
    \/ ~IsSpace(s[i])
    \/ /\ i > 1
       /\ ~IsSpace(s[i - 1])
       /\ \E j \in (i + 1)..Len(s) : ~IsSpace(s[j])

\* clean_text: re.sub(r'\s+', ' ', text).strip()
clean_text(text) ==
    LET Keep(i) == KeptByClean(text, i)
        kept    == SelectSeq([i \in 1..Len(text) |-> i], Keep)
    IN  [k \in 1..Len(kept) |-> text[kept[k]]]

\* the paragraph filter of extract_text_from_xhtml
KeepParagraph(text) == text # <<>> /\ Len(text) > MinParagraphLen

RECURSIVE JoinTexts(_)
JoinTexts(ts) == IF ts = <<>> THEN <<>> ELSE ts[1] \o <<" ">> \o JoinTexts(Tail(ts))

\* extract_text_from_xhtml on a body made of one heading followed by <p> elements
extract_text_from_xhtml(file, title, heading, rawParagraphs) ==
    LET cleaned == [i \in 1..Len(rawParagraphs) |-> clean_text(rawParagraphs[i])]
        kept    == SelectSeq(cleaned, KeepParagraph)
    IN  [file       |-> file,
         title      |-> title,
         paragraphs |-> [i \in 1..Len(kept) |-> [text |-> kept[i]]],
         full_text  |-> clean_text(heading \o <<" ">> \o JoinTexts(rawParagraphs))]

KeepDocument(content) == content.full_text # <<>>

\* parse_all: the documents with a non-empty full_text, in file order
parse_all(parsed) == SelectSeq(parsed, KeepDocument)

(***************************************************************************)
(* keyword_search                                                          *)
(***************************************************************************)
\* set(words): every word once (the loops over the set add and test, so the
\* order in which Python walks the set does not show)
Distinct(words) ==
    LET First(i) == \A j \in 1..(i - 1) : words[j] # words[i]
        kept     == SelectSeq([i \in 1..Len(words) |-> i], First)
    IN  [k \in 1..Len(kept) |-> words[kept[k]]]

\* the words as a list: a repeated word is scored once per repetition
query_words_list(query) == split(lower(query))

\* query_words = set(query.lower().split())
query_words(query) == Distinct(split(lower(query)))

\* one pass of the scoring loop: body occurrences, plus the title boost
WordScore(word, text, title) ==
    (IF Contains(text, word) THEN count(text, word) ELSE 0)
  + (IF Contains(lower(title), word) THEN TitleBoost ELSE 0)

\* for word in query_words: score += ...
RECURSIVE SumScores(_, _, _)
SumScores(words, text, title) ==
    IF words = <<>> THEN 0
    ELSE WordScore(Head(words), text, title) + SumScores(Tail(words), text, title)

relevance_score(doc, words) == SumScores(words, lower(doc.full_text), doc.title)

\* any(word in para['text'].lower() for word in query_words)
AnyWordIn(words, text) == \E k \in DOMAIN words : Contains(lower(text), words[k])

\* the loop over paragraphs[:3], left at the first paragraph holding a query word
RECURSIVE ScanParagraphs(_, _, _)
ScanParagraphs(paras, i, words) ==
    IF i > Len(paras) THEN <<>>
    ELSE IF AnyWordIn(words, paras[i].text)
         THEN Truncate(paras[i].text, SnippetLen)
         ELSE ScanParagraphs(paras, i + 1, words)

\* the scan over every paragraph
AllParagraphs(paragraphs) == paragraphs

\* paragraphs[:3]
ScannedParagraphs(paragraphs) == Slice(paragraphs, FirstParagraphs)

\* no fallback to the first paragraph
NoFallbackSnippet(snippet, paragraphs) == snippet

\* if not snippet and paragraphs: snippet = paragraphs[0]['text'][:300]
FallbackSnippet(snippet, paragraphs) ==
    IF snippet = <<>> /\ paragraphs # <<>>
    THEN Truncate(paragraphs[1].text, SnippetLen)
    ELSE snippet

keyword_snippet(doc, words) ==
    FallbackSnippet(ScanParagraphs(ScannedParagraphs(doc.paragraphs), 1, words),
                    doc.paragraphs)

SearchResult(doc, snippet, score) ==
    [title |-> doc.title, file |-> doc.file, snippet |-> snippet, score |-> score]

\* the loop over documents: one result per document with score > 0, in order
RECURSIVE KeywordResults(_, _, _)
KeywordResults(docs, i, words) ==
    IF i > Len(docs) THEN <<>>
    ELSE LET doc   == docs[i]
             score == relevance_score(doc, words)
             rest  == KeywordResults(docs, i + 1, words)
         IN  IF score > 0
             THEN <<SearchResult(doc, keyword_snippet(doc, words), score)>> \o rest
             ELSE rest

\* an ascending sort read backwards: equal scores come out in reverse order
InsertDescUnstable(sorted, r) ==
    LET k == Cardinality({j \in DOMAIN sorted : sorted[j].score > r.score})
    IN  SubSeq(sorted, 1, k) \o <<r>> \o SubSeq(sorted, k + 1, Len(sorted))

\* where a stable descending sort puts r: behind every result scoring >= r
InsertDesc(sorted, r) ==
    LET k == Cardinality({j \in DOMAIN sorted : sorted[j].score >= r.score})
    IN  SubSeq(sorted, 1, k) \o <<r>> \o SubSeq(sorted, k + 1, Len(sorted))

RECURSIVE SortByScore(_)
\* results.sort(key=score, reverse=True): stable, equal scores keep their order
SortByScore(results) ==
    IF results = <<>> THEN <<>>
    ELSE InsertDesc(SortByScore(SubSeq(results, 1, Len(results) - 1)),
                    results[Len(results)])

keyword_search(query, limit) ==
    Slice(SortByScore(KeywordResults(documents, 1, query_words(query))), limit)

(***************************************************************************)
(* vector_search                                                           *)
(***************************************************************************)
None == "None"
NoEmbeddings == [present |-> FALSE, rows |-> <<>>]

\* what the environment decides during one semantic ranking: where (if at all)
\* an exception is raised, the cosine similarities, and the order np.argsort
\* gives (ascending; the order of equal similarities is the library's choice)
SemanticSnippet(doc) ==
    IF doc.paragraphs # <<>>
    THEN Truncate(doc.paragraphs[1].text, SnippetLen)
    ELSE Truncate(doc.full_text, SnippetLen)

\* the threshold test with >= in place of >
AtOrAboveThreshold(similarity) == similarity >= SimilarityThreshold

AboveThreshold(similarity) == similarity > SimilarityThreshold

\* the loop over top_indices
RECURSIVE SemanticResults(_, _, _)
SemanticResults(top_indices, i, similarities) ==
    IF i > Len(top_indices) THEN <<>>
    ELSE LET idx  == top_indices[i]
             rest == SemanticResults(top_indices, i + 1, similarities)
         IN  IF AboveThreshold(similarities[idx])
             THEN <<SearchResult(documents[idx], SemanticSnippet(documents[idx]),
                                 similarities[idx])>> \o rest
             ELSE rest

\* np.argsort(similarities)[::-1][:limit]
TopIndices(order, limit) == Slice(Reverse(order), limit)

\* the try block: the results built when an exception (if any) is raised
TryRanking(limit, env) ==
    LET top == TopIndices(env.order, limit)
    IN  CASE env.fail = "none" ->
               [raised |-> FALSE, results |-> SemanticResults(top, 1, env.similarities)]
          [] env.fail = "result" ->
               [raised |-> TRUE,
                results |-> SemanticResults(Slice(top, 1), 1, env.similarities)]
          [] OTHER -> [raised |-> TRUE, results |-> <<>>]

\* a handler for one kind of failure only: the others leave vector_search
CaughtEncodeOnly(fail) == fail = "encode"

\* except Exception: every failure of the try block is caught
Caught(fail) == TRUE

\* the handler: the partial results are dropped, keyword_search answers
HandleFailure(query, limit, partial) == keyword_search(query, limit)

BackendMissing == vector_model = None \/ ~document_embeddings.present

vector_search(query, limit, env) ==
    IF BackendMissing
    THEN [error |-> FALSE, results |-> keyword_search(query, limit),
          calls |-> <<"vector_search", "keyword_search">>]
    ELSE LET try == TryRanking(limit, env)
         IN  IF ~try.raised
             THEN [error |-> FALSE, results |-> try.results,
                   calls |-> <<"vector_search">>]
             ELSE IF Caught(env.fail)
                  THEN [error |-> FALSE,
                        results |-> HandleFailure(query, limit, try.results),
                        calls |-> <<"vector_search", "keyword_search">>]
                  ELSE [error |-> TRUE, results |-> <<>>,
                        calls |-> <<"vector_search">>]

(***************************************************************************)
(* search                                                                  *)
(***************************************************************************)
NoRequest == [pending |-> FALSE, query |-> <<>>, limit |-> 0, use_vector_search |-> FALSE]
NoResponse == [status |-> 0, results |-> <<>>, calls |-> <<>>,
               similarities |-> <<>>, failure |-> "none"]
NoEnv == [fail |-> "none", similarities |-> <<>>, order |-> <<>>]

\* a test that an empty list passes (documents is None)
ContentIsNone == FALSE

\* if not documents
ContentNotLoaded == documents = <<>>

\* request.use_vector_search and VECTOR_SEARCH_AVAILABLE and vector_model
UseSemantic(req) ==
    req.use_vector_search /\ VECTOR_SEARCH_AVAILABLE /\ vector_model # None

\* the keyword branch without the limit argument (keyword_search's default applies)
KeywordBranchDefaultLimit(req) == keyword_search(req.query, DefaultLimit)

\* results = keyword_search(request.query, request.limit)
KeywordBranch(req) == keyword_search(req.query, req.limit)

\* the whole handler: 503 before any ranker, then exactly one ranker
SearchResponse(req, env) ==
    IF ContentNotLoaded
    THEN [NoResponse EXCEPT !.status = 503]
    ELSE IF UseSemantic(req)
         THEN LET r == vector_search(req.query, req.limit, env)
              IN  [status       |-> IF r.error THEN 500 ELSE 200,
                   results      |-> r.results,
                   calls        |-> r.calls,
                   similarities |-> IF r.calls = <<"vector_search">> /\ ~r.error
                                    THEN env.similarities ELSE <<>>,
                   failure      |-> IF r.calls = <<"vector_search", "keyword_search">>
                                       \/ r.error
                                    THEN env.fail ELSE "none"]
         ELSE [NoResponse EXCEPT !.status = 200,
                                 !.results = KeywordBranch(req),
                                 !.calls = <<"keyword_search">>]

(***************************************************************************)
(* Inputs                                                                  *)
(***************************************************************************)
X11 == Rep(<<"x">>, MinParagraphLen + 1)
LongParagraph == Rep(<<"x">>, SnippetLen) \o <<"a">>

\* the XHTML files an EPUB may hold: title, heading text, <p> texts
RawFiles ==
    { [title |-> <<"A", " ", "b">>, heading |-> <<>>,
       paragraphs |-> <<LongParagraph, X11, X11, X11 \o <<"b">>>>],
      [title |-> <<"x">>, heading |-> <<>>,
       paragraphs |-> <<<<"a", " ", " ", "b">>, X11, <<"b">> \o X11, X11 \o <<"A">>>>],
      [title |-> <<"a">>, heading |-> <<"b", " ", "a", "a", " ", "b">>,
       paragraphs |-> <<>>],
      [title |-> <<"a">>, heading |-> <<>>, paragraphs |-> <<<<" ">>>>] }

Injective(f) == \A i, j \in DOMAIN f : f[i] = f[j] => i = j

\* the sorted list of content files of an EPUB, each with its content
Epubs ==
    UNION { {f \in [1..n -> RawFiles] : Injective(f)} : n \in 0..MaxDocs }

\* the content list parse_all saves to content.json
ContentOf(epub) ==
    parse_all([i \in 1..Len(epub) |->
        extract_text_from_xhtml(i, epub[i].title, epub[i].heading, epub[i].paragraphs)])

QueryPool ==
    { <<>>, <<"a", " ", "a">>, <<"b">>, <<"A", " ", "b">>, <<"a", "a">>, <<"z">> }

Limits == (0 - 1)..MaxLimit

SimValues == {SimilarityThreshold, SimilarityThreshold + 1, 50}

IsPermutation(p, n) == \A i \in 1..n : \E j \in 1..n : p[j] = i

\* the orders np.argsort may return: ascending by similarity
ArgsortOutcomes(similarities) ==
    LET n == Len(similarities)
    IN  { p \in [1..n -> 1..n] :
            /\ IsPermutation(p, n)
            /\ \A i \in 1..(n - 1) : similarities[p[i]] <= similarities[p[i + 1]] }

RankingOutcomes ==
    UNION { { [fail |-> f, similarities |-> s, order |-> o] :
                o \in ArgsortOutcomes(s), f \in {"none", "result"} } :
            s \in [1..Len(documents) -> SimValues] }

Environments(req) ==
    IF ~ContentNotLoaded /\ UseSemantic(req) /\ ~BackendMissing
    THEN RankingOutcomes
         \cup { [NoEnv EXCEPT !.fail = f] : f \in {"encode", "cosine_similarity"} }
    ELSE {NoEnv}

(***************************************************************************)
(* Process initialization and the request cycle                            *)
(***************************************************************************)
Init ==
    /\ pc = "import"
    /\ VECTOR_SEARCH_AVAILABLE = FALSE
    /\ documents = <<>>
    /\ vector_model = None
    /\ document_embeddings = NoEmbeddings
    /\ request = NoRequest
    /\ response = NoResponse

\* the try/except ImportError around the optional dependencies
ImportDependencies ==
    /\ pc = "import"
    /\ \E ok \in BOOLEAN : VECTOR_SEARCH_AVAILABLE' = ok
    /\ pc' = "load"
    /\ UNCHANGED <<documents, vector_model, document_embeddings, request, response>>

\* content.json exists: documents = content_data.get('content', [])
LoadContent ==
    /\ pc = "load"
    /\ \E epub \in Epubs : documents' = ContentOf(epub)
    /\ pc' = "vector_init"
    /\ UNCHANGED <<VECTOR_SEARCH_AVAILABLE, vector_model, document_embeddings,
                   request, response>>

\* content.json does not exist: documents stays []
ContentFileMissing ==
    /\ pc = "load"
    /\ documents' = <<>>
    /\ pc' = "vector_init"
    /\ UNCHANGED <<VECTOR_SEARCH_AVAILABLE, vector_model, document_embeddings,
                   request, response>>

\* if VECTOR_SEARCH_AVAILABLE and documents
EnterVectorInit ==
    /\ pc = "vector_init"
    /\ pc' = IF VECTOR_SEARCH_AVAILABLE /\ documents # <<>> THEN "load_model" ELSE "serving"
    /\ UNCHANGED <<VECTOR_SEARCH_AVAILABLE, documents, vector_model,
                   document_embeddings, request, response>>

\* a handler that resets the embeddings and leaves the model loaded
InitFailureKeepsModel == [vector_model |-> vector_model, document_embeddings |-> NoEmbeddings]

\* except Exception: vector_model = None; document_embeddings = None
InitFailureHandler == [vector_model |-> None, document_embeddings |-> NoEmbeddings]

InitFailed ==
    /\ vector_model' = InitFailureHandler.vector_model
    /\ document_embeddings' = InitFailureHandler.document_embeddings
    /\ pc' = "serving"

\* vector_model = SentenceTransformer(...), which may raise
LoadModel ==
    /\ pc = "load_model"
    /\ \/ /\ vector_model' = "all-MiniLM-L6-v2"
          /\ pc' = "encode"
          /\ UNCHANGED document_embeddings
       \/ InitFailed
    /\ UNCHANGED <<VECTOR_SEARCH_AVAILABLE, documents, request, response>>

\* one embedding row per document text
encode(texts) == [i \in 1..Len(texts) |-> <<"embedding", Len(texts[i])>>]

\* document_embeddings = vector_model.encode(document_texts), which may raise
EncodeDocuments ==
    /\ pc = "encode"
    /\ \/ /\ document_embeddings' =
                [present |-> TRUE,
                 rows |-> encode([i \in 1..Len(documents) |-> documents[i].full_text])]
          /\ pc' = "serving"
          /\ UNCHANGED vector_model
       \/ InitFailed
    /\ UNCHANGED <<VECTOR_SEARCH_AVAILABLE, documents, request, response>>

\* a SearchRequest passes validation: query a string, limit any int
Receive ==
    /\ pc = "serving"
    /\ ~request.pending
    /\ \E q \in QueryPool, l \in Limits, v \in BOOLEAN :
          request' = [pending |-> TRUE, query |-> q, limit |-> l, use_vector_search |-> v]
    /\ UNCHANGED <<pc, VECTOR_SEARCH_AVAILABLE, documents, vector_model,
                   document_embeddings, response>>

\* POST /api/search
search ==
    /\ pc = "serving"
    /\ request.pending
    /\ response.status = 0
    /\ \E env \in Environments(request) : response' = SearchResponse(request, env)
    /\ UNCHANGED <<pc, VECTOR_SEARCH_AVAILABLE, documents, vector_model,
                   document_embeddings, request>>

\* the response leaves the handler; nothing of the request is kept
Deliver ==
    /\ pc = "serving"
    /\ response.status # 0
    /\ request' = NoRequest
    /\ response' = NoResponse
    /\ UNCHANGED <<pc, VECTOR_SEARCH_AVAILABLE, documents, vector_model,
                   document_embeddings>>

Next ==
    \/ ImportDependencies
    \/ LoadContent
    \/ ContentFileMissing
    \/ EnterVectorInit
    \/ LoadModel
    \/ EncodeDocuments
    \/ Receive
    \/ search
    \/ Deliver

Spec == Init /\ [][Next]_vars

(***************************************************************************)
(* keyword_search as a function of one document and one query              *)
(***************************************************************************)
Strings(chars, n) == UNION { [1..k -> chars] : k \in 0..n }

ScoreFiles ==
    { [title |-> t, heading |-> h, paragraphs |-> <<>>] :
        t \in {<<>>, <<"A">>, <<"b">>, <<"b", "a">>},
        h \in Strings({"a", "A", "b"}, MaxTextLen) \ {<<>>} }

ScoreQueries == Strings({"a", "A", "b", " "}, MaxQueryLen)

InitScore ==
    /\ pc = "serving"
    /\ VECTOR_SEARCH_AVAILABLE = FALSE
    /\ \E f \in ScoreFiles : documents = ContentOf(<<f>>)
    /\ vector_model = None
    /\ document_embeddings = NoEmbeddings
    /\ \E q \in ScoreQueries :
          request = [pending |-> TRUE, query |-> q, limit |-> DefaultLimit,
                     use_vector_search |-> FALSE]
    /\ response = NoResponse

NextScore == search

SpecScore == InitScore /\ [][NextScore]_vars

(***************************************************************************)
(* What the specification says of the rankers, stated without the code     *)
(***************************************************************************)
Results == response.results

\* the responses keyword_search produced (directly, or as the fallback)
FromKeywordRanker ==
    /\ response.status = 200
    /\ response.calls # <<>>
    /\ response.calls[Len(response.calls)] = "keyword_search"

\* the document a result was built from
DocOf(r) == CHOOSE d \in {documents[i] : i \in DOMAIN documents} : d.file = r.file

Occurs(term, text, i) ==
    i >= 1 /\ i + Len(term) - 1 <= Len(text) /\ SubSeq(text, i, i + Len(term) - 1) = term

\* the distinct whitespace-separated terms of the lower-cased query
ClaimTerms(query) ==
    LET q == lower(query)
        IsTerm(a, b) ==
            /\ a <= b
            /\ \A k \in a..b : q[k] # " "
            /\ a = 1 \/ q[a - 1] = " "
            /\ b = Len(q) \/ q[b + 1] = " "
    IN  { SubSeq(q, p[1], p[2]) :
            p \in {x \in (1..Len(q)) \X (1..Len(q)) : IsTerm(x[1], x[2])} }

\* the number of occurrences of term in text: the most occurrences that can be
\* marked in the text without two of them sharing a character
ClaimOccurrences(term, text) ==
    LET at == {i \in 1..Len(text) : Occurs(term, text, i)}
        Apart(P) == \A i, j \in P : i < j => j - i >= Len(term)
        sizes == {Cardinality(P) : P \in {Q \in SUBSET at : Apart(Q)}}
    IN  CHOOSE n \in sizes : \A m \in sizes : m <= n

ClaimTermScore(term, doc) ==
    ClaimOccurrences(term, lower(doc.full_text))
  + (IF \E i \in 1..Len(doc.title) : Occurs(term, lower(doc.title), i) THEN 10 ELSE 0)

RECURSIVE ClaimSum(_, _)
ClaimSum(terms, doc) ==
    IF terms = {} THEN 0
    ELSE LET t == CHOOSE x \in terms : TRUE
         IN  ClaimTermScore(t, doc) + ClaimSum(terms \ {t}, doc)

ClaimScore(doc, query) == ClaimSum(ClaimTerms(query), doc)

\* C1: keyword_search scores every document with the sum, over the distinct
\* lower-cased query terms, of the term's occurrences in the lower-cased full
\* text plus 10 when the term occurs in the lower-cased title; a repeated query
\* word counts once.  (A document appears in the results exactly when that
\* score is positive, and carries it.)
C1_KeywordScore ==
    FromKeywordRanker =>
        \A i \in DOMAIN documents :
            LET doc == documents[i]
                expected == ClaimScore(doc, request.query)
                mine == {k \in DOMAIN Results : Results[k].file = doc.file}
            IN  /\ \A k \in mine : Results[k].score = expected
                /\ expected <= 0 => mine = {}
                /\ (expected > 0 /\ Len(documents) <= request.limit) => mine # {}

\* a repeated query word that is in the title and the body of a returned document
C1_Witness ==
    /\ FromKeywordRanker
    /\ Len(split(request.query)) > Cardinality(ClaimTerms(request.query))
    /\ \E k \in DOMAIN Results :
          \E t \in ClaimTerms(request.query) :
             /\ ClaimOccurrences(t, lower(DocOf(Results[k]).full_text)) > 0
             /\ Results[k].score
                  = ClaimOccurrences(t, lower(DocOf(Results[k]).full_text)) + 10

\* the documents with a positive score, best first, equal scores in collection order
ClaimRanking(query) ==
    LET score(i) == relevance_score(documents[i], query_words(query))
        qual == {i \in DOMAIN documents : score(i) > 0}
    IN  CHOOSE f \in [1..Cardinality(qual) -> qual] :
            /\ \A i \in qual : \E k \in DOMAIN f : f[k] = i
            /\ \A k \in 1..(Cardinality(qual) - 1) :
                  \/ score(f[k]) > score(f[k + 1])
                  \/ score(f[k]) = score(f[k + 1]) /\ f[k] < f[k + 1]

\* C2: the list keyword_search returns is a prefix of the documents with score
\* > 0 ordered by score descending, equal scores in Document Collection order
\* (so nothing is returned when no term matches).
C2_RankedPrefix ==
    FromKeywordRanker =>
        LET ranking == ClaimRanking(request.query)
        IN  /\ Len(Results) <= Len(ranking)
            /\ \A k \in DOMAIN Results :
                  /\ Results[k].file = documents[ranking[k]].file
                  /\ Results[k].score
                       = relevance_score(documents[ranking[k]], query_words(request.query))
                  /\ Results[k].score > 0

\* two documents with the same score are both returned
C2_Witness ==
    /\ FromKeywordRanker
    /\ Len(Results) >= 2
    /\ Results[1].score = Results[2].score
    /\ Results[1].file # Results[2].file

\* the responses the semantic ranking itself produced
FromSemanticRanker ==
    /\ response.status = 200
    /\ response.calls = <<"vector_search">>

\* the documents that qualify for the ranker that answered
QualifyingCount ==
    IF FromKeywordRanker
    THEN Cardinality({i \in DOMAIN documents :
             relevance_score(documents[i], query_words(request.query)) > 0})
    ELSE Cardinality({i \in DOMAIN documents :
             response.similarities[i] > SimilarityThreshold})

\* C3: for every accepted SearchRequest (any int limit), in keyword and in
\* semantic mode, the number of results is min(limit, number of qualifying
\* documents), and never more than limit.
C3_LimitBoundsResults ==
    response.status = 200 =>
        /\ Len(Results) = Min(request.limit, QualifyingCount)
        /\ Len(Results) <= request.limit

\* the same for the limits that are counts (limit >= 0)
C3_CountLimits ==
    (response.status = 200 /\ request.limit >= 0) =>
        Len(Results) = Min(request.limit, QualifyingCount)

\* limit = -1 with two qualifying documents: one result comes back
C3_OverReturn ==
    /\ response.status = 200
    /\ request.limit = 0 - 1
    /\ QualifyingCount = 2
    /\ Len(Results) = 1

\* the semantic path ran to its end: the backend was there and nothing failed
SemanticPathRan ==
    /\ response.status # 0
    /\ response.calls # <<>>
    /\ response.calls[1] = "vector_search"
    /\ response.failure = "none"
    /\ ~BackendMissing

\* C4: when the semantic path runs without error, the results are exactly the
\* documents with similarity > 0.1, by similarity descending, cut to the top
\* limit; each score is the raw similarity; none is <= 0.1; and when no
\* document exceeds the threshold the result is empty, with no keyword fallback.
C4_ThresholdRanking ==
    SemanticPathRan =>
        LET sims  == response.similarities
            above == {i \in DOMAIN documents : sims[i] > 10}
            idx(k) == CHOOSE i \in DOMAIN documents : documents[i].file = Results[k].file
            returned == {idx(k) : k \in DOMAIN Results}
        IN  /\ FromSemanticRanker
            /\ Len(sims) = Len(documents)
            /\ \A k \in DOMAIN Results :
                  /\ \E i \in above : documents[i].file = Results[k].file
                  /\ Results[k].score = sims[idx(k)]
                  /\ Results[k].score > 10
            /\ \A k, m \in DOMAIN Results : k < m =>
                  /\ Results[k].score >= Results[m].score
                  /\ Results[k].file # Results[m].file
            /\ request.limit >= 0 =>
                  /\ Len(Results) = Min(request.limit, Cardinality(above))
                  /\ \A i \in above \ returned :
                        \A k \in DOMAIN Results : sims[i] <= Results[k].score
            /\ above = {} => Results = <<>>

\* a document exactly at the threshold is left out while another is returned
C4_Witness ==
    /\ SemanticPathRan
    /\ request.limit >= 1
    /\ Len(Results) = 1
    /\ \E i \in DOMAIN documents : response.similarities[i] = 10
    /\ \E i \in DOMAIN documents : response.similarities[i] > 10

\* the limit cuts a qualifying document off
C4_WitnessCut ==
    /\ SemanticPathRan
    /\ request.limit = 1
    /\ Len(Results) = 1
    /\ Cardinality({i \in DOMAIN documents : response.similarities[i] > 10}) >= 2

\* no document above the threshold: empty result, keyword ranker not called
C4_WitnessEmpty ==
    /\ SemanticPathRan
    /\ request.limit > 0
    /\ \A i \in DOMAIN documents : response.similarities[i] <= 10
    /\ Results = <<>>
    /\ relevance_score(documents[1], query_words(request.query)) > 0

BackendUnavailable ==
    \/ ~VECTOR_SEARCH_AVAILABLE
    \/ vector_model = None
    \/ ~document_embeddings.present

\* C5: with the embedding backend or index unavailable, a request with
\* use_vector_search=true gets the result list the same query and limit get
\* with use_vector_search=false: the Keyword Ranker's list, and nothing else.
C5_UnavailableIsKeyword ==
    (response.status = 200 /\ request.use_vector_search /\ BackendUnavailable) =>
        /\ Results = keyword_search(request.query, request.limit)
        /\ Results = SearchResponse([request EXCEPT !.use_vector_search = FALSE],
                                    NoEnv).results
        /\ FromKeywordRanker

\* after a failed initialization, a semantic request answered with keyword results
C5_Witness ==
    /\ response.status = 200
    /\ request.use_vector_search
    /\ VECTOR_SEARCH_AVAILABLE
    /\ vector_model = None
    /\ Len(Results) >= 1
    /\ Len(Results) < QualifyingCount

\* C6: a failure of query embedding or similarity computation, wherever it
\* happens, is caught; the request returns the Keyword Ranker's result for the
\* same query and limit, nothing of the partial semantic results, and no error.
C6_FailureFallsBack ==
    (response.status # 0 /\ response.failure # "none") =>
        /\ response.status = 200
        /\ response.calls = <<"vector_search", "keyword_search">>
        /\ Results = keyword_search(request.query, request.limit)

\* the failure came while the semantic results were being built, and the
\* request was answered with keyword results
C6_Witness ==
    /\ response.status = 200
    /\ response.failure = "result"
    /\ response.calls = <<"vector_search", "keyword_search">>
    /\ Len(Results) >= 1

\* C7: search answers 503 exactly when the Document Collection is empty; the
\* test comes before ranker selection, so no ranker runs on an empty collection.
C7_UnavailableIffEmpty ==
    response.status # 0 =>
        /\ response.status = 503 <=> documents = <<>>
        /\ documents = <<>> => response.calls = <<>> /\ Results = <<>>

\* a 503 for a semantic request with the dependencies imported
C7_Witness ==
    /\ response.status = 503
    /\ request.use_vector_search
    /\ VECTOR_SEARCH_AVAILABLE
    /\ request.query # <<>>

\* C8: every snippet has at most 300 characters, and is empty only for a
\* document without paragraphs (in semantic mode: whose full text is empty too).
C8_SnippetBounds ==
    response.status = 200 =>
        \A k \in DOMAIN Results :
            LET doc == DocOf(Results[k])
            IN  /\ Len(Results[k].snippet) <= 300
                /\ Results[k].snippet = <<>> =>
                      /\ doc.paragraphs = <<>>
                      /\ FromSemanticRanker => doc.full_text = <<>>
                /\ doc.paragraphs # <<>> => Results[k].snippet # <<>>

\* a snippet cut at 300 characters, beside an empty one
C8_Witness ==
    /\ FromKeywordRanker
    /\ \E k \in DOMAIN Results :
          /\ Len(Results[k].snippet) = 300
          /\ Len(DocOf(Results[k]).paragraphs[1].text) > 300
    /\ \E k \in DOMAIN Results : Results[k].snippet = <<>>

\* the snippet the specification describes for keyword mode
ClaimSnippet(doc, query) ==
    LET n == Len(doc.paragraphs)
        cut(t) == SubSeq(t, 1, IF Len(t) < 300 THEN Len(t) ELSE 300)
        matches(i) ==
            \E t \in ClaimTerms(query) :
                \E j \in 1..Len(doc.paragraphs[i].text) :
                    Occurs(t, lower(doc.paragraphs[i].text), j)
        hits == {i \in 1..n : i <= 3 /\ matches(i)}
    IN  IF n = 0 THEN <<>>
        ELSE IF hits = {} THEN cut(doc.paragraphs[1].text)
        ELSE cut(doc.paragraphs[CHOOSE i \in hits : \A j \in hits : i <= j].text)

\* C9: the keyword snippet is the first of the document's first 3 paragraphs
\* that holds a query term (case-insensitively), cut to 300 characters; else the
\* first paragraph cut to 300; a match in a later paragraph is never used; it is
\* empty when the document has no paragraphs.
C9_KeywordSnippet ==
    FromKeywordRanker =>
        \A k \in DOMAIN Results :
            Results[k].snippet = ClaimSnippet(DocOf(Results[k]), request.query)

\* the only paragraph with a query term is the 4th, and the first one is shown
C9_Witness ==
    /\ FromKeywordRanker
    /\ \E k \in DOMAIN Results :
          LET paras == DocOf(Results[k]).paragraphs
          IN  /\ Len(paras) >= 4
              /\ AnyWordIn(query_words(request.query), paras[4].text)
              /\ \A i \in 1..3 : ~AnyWordIn(query_words(request.query), paras[i].text)
              /\ Results[k].snippet = SubSeq(paras[1].text, 1, 300)

\* the second paragraph is shown: it is the first of the first 3 with a term
C9_WitnessLater ==
    /\ FromKeywordRanker
    /\ \E k \in DOMAIN Results :
          LET paras == DocOf(Results[k]).paragraphs
          IN  /\ Len(paras) >= 3
              /\ Results[k].snippet = paras[2].text
              /\ paras[2].text # paras[1].text

Initialized == pc = "serving"

ModelAndIndexAgree ==
    \/ vector_model = None /\ ~document_embeddings.present
    \/ /\ vector_model # None
       /\ document_embeddings.present
       /\ Len(document_embeddings.rows) = Len(documents)

\* C10: once the process is initialized, the model and the index are both
\* absent, or both present with one embedding per document; a failed
\* initialization leaves both absent, is never retried, and every later request
\* is answered by the Keyword Ranker.
C10_IndexAligned ==
    /\ [](Initialized => ModelAndIndexAgree)
    /\ [](Initialized /\ vector_model = None /\ response.status = 200
            => FromKeywordRanker /\ response.calls = <<"keyword_search">>)
    /\ [][Initialized =>
            /\ Initialized'
            /\ UNCHANGED <<vector_model, document_embeddings, documents,
                           VECTOR_SEARCH_AVAILABLE>>]_vars

\* initialization failed while encoding, and a semantic request was answered
C10_Witness ==
    /\ Initialized
    /\ VECTOR_SEARCH_AVAILABLE
    /\ documents # <<>>
    /\ vector_model = None
    /\ ~document_embeddings.present
    /\ response.status = 200
    /\ request.use_vector_search

====
